---- MODULE Spec2Model ----
(***************************************************************************)
(* duosense: two physical controllers merged into one virtual controller.  *)
(*                                                                         *)
(*   ControllerMerger  (src/duosense.py)          polls both players,      *)
(*                                                combines their inputs    *)
(*   VirtualController (src/virtualcontroller.py) holds the merged state   *)
(*                                                and runs the output loop *)
(*                                                                         *)
(* Python dicts are functions; a key that is absent is outside DOMAIN.     *)
(* Axis values are floats in [-1.0, 1.0]; here they are integers counting  *)
(* thousandths (0.1 is 100, -0.8 is -800).                                 *)
(***************************************************************************)
EXTENDS Integers, FiniteSets, Sequences, TLC

VARIABLES
    \* ControllerMerger
    player1_id, player2_id,
    player1_inputs, player1_axes,
    player2_inputs, player2_axes,
    \* whether the read of a player raised pygame.error in the current pass
    player1_failed, player2_failed,
    combined_state, combined_axes,
    merger_is_running,
    mpc,
    \* whether the last combine_inputs replaced a merged snapshot holding a key
    \* that the new one does not have
    overwritten,
    \* VirtualController
    is_initialized, is_running, output_thread, state,
    \* the output threads: position and locals of each _output_loop
    pc, active_buttons, active_axes,
    \* the thread calling start() / stop(), and what the last call returned
    api_pc, last_call,
    \* the arguments of the most recently completed update_state call
    last_update,
    \* the report encoder: two axis values and the bytes it made of them
    axis_values, axis_bytes,
    \* ControllerMerger's threads: each merger_loop, and the Tk main thread
    merger_pc, ui_pc,
    \* how the last start_merging call ended
    merging_call,
    \* the output thread that a merger thread's stop() is joining
    merger_join

mergerVars == <<player1_id, player2_id, player1_inputs, player1_axes,
                player2_inputs, player2_axes, combined_state, combined_axes,
                merger_is_running, mpc, overwritten,
                player1_failed, player2_failed>>
playerVars == <<player1_inputs, player1_axes, player2_inputs, player2_axes,
                player1_failed, player2_failed>>
threadVars == <<pc, active_buttons, active_axes>>
driverVars == <<is_initialized, is_running, output_thread>>
heldVars   == <<state, last_update>>
apiVars    == <<api_pc, last_call>>
encoderVars == <<axis_values, axis_bytes>>
appVars    == <<merger_pc, ui_pc, merging_call, merger_join>>
vars == <<mergerVars, driverVars, heldVars, threadVars, apiVars, encoderVars,
          appVars>>

----------------------------------------------------------------------------
(* Bounds *)

\* how many output threads start() may create in one run
MaxThreads == 2

----------------------------------------------------------------------------
(* Dicts *)

EmptyDict == [k \in {} |-> FALSE]

\* d.get(k, default)
Get(d, k, default) == IF k \in DOMAIN d THEN d[k] ELSE default

\* abs(v)
Abs(v) == IF v < 0 THEN -v ELSE v

\* the "small deadzone" of combine_inputs and of the output loop: 0.1
Deadzone == 100

----------------------------------------------------------------------------
(* What a controller can report *)

ButtonKeys == {"button_0"}
AxisKeys   == {"axis_0"}
HatKeys    == {"hat_0_up", "hat_0_down", "hat_0_left", "hat_0_right"}
InputKeys  == ButtonKeys \cup HatKeys

\* -0.8, -0.1, 0.05, 0.1, 0.504
AxisValues == {-800, -100, 50, 100, 504}

\* joystick.get_hat(i): (x, y)
HatValues == {<<0, 0>>, <<0, 1>>, <<-1, 0>>}

\* the four keys update_controller_states derives from one hat
HatInputs(hat) ==
    [k \in HatKeys |->
        CASE k = "hat_0_up"    -> hat[2] > 0
          [] k = "hat_0_down"  -> hat[2] < 0
          [] k = "hat_0_left"  -> hat[1] < 0
          [] k = "hat_0_right" -> hat[1] > 0]

\* d1 updated with every item of d2
Merge(d1, d2) ==
    [k \in DOMAIN d1 \cup DOMAIN d2 |-> IF k \in DOMAIN d2 THEN d2[k] ELSE d1[k]]

\* What one player's try block leaves in (inputs, axes), both cleared before
\* it: the buttons are read first, then the axes, then the hats, and
\* pygame.error ends the block wherever it is raised. A controller without
\* axes or hats leaves the same as a read that failed before them.
ButtonReads == {[k \in ButtonKeys |-> v] : v \in BOOLEAN}
AxisReads   == {[k \in AxisKeys |-> v] : v \in AxisValues}
ReadOutcomes ==
    {[inputs |-> EmptyDict, axes |-> EmptyDict]}
    \cup {[inputs |-> b, axes |-> EmptyDict] : b \in ButtonReads}
    \cup {[inputs |-> b, axes |-> a] : b \in ButtonReads, a \in AxisReads}
    \cup {[inputs |-> Merge(b, HatInputs(h)), axes |-> a] :
            b \in ButtonReads, a \in AxisReads, h \in HatValues}

\* What a try block that ended in pygame.error can have left: nothing
\* (Joystick() or the first get_button raised), the buttons (get_axis
\* raised), or the buttons and the axes (get_hat raised).
FailedReads == {r \in ReadOutcomes : DOMAIN r.inputs \cap HatKeys = {}}

----------------------------------------------------------------------------
(* VirtualController.update_state *)

\* Every output thread, created or not
Threads == 1..MaxThreads

\* update_state with the guard ParsecVirtualController.update_state has
\* (if not self.is_running: return): a call made while stopped is dropped
update_state_OnlyWhenRunning(buttons, axes) ==
    /\ state' = IF is_running THEN [buttons |-> buttons, axes |-> axes] ELSE state
    /\ last_update' = [called |-> TRUE, buttons |-> buttons, axes |-> axes]

\* self.state = {"buttons": buttons.copy(), "axes": axes.copy()}: the new dict
\* is built first and self.state is rebound to it in one store
update_state(buttons, axes) ==
    /\ state' = [buttons |-> buttons, axes |-> axes]
    /\ last_update' = [called |-> TRUE, buttons |-> buttons, axes |-> axes]

----------------------------------------------------------------------------
(* ControllerMerger.update_controller_states and combine_inputs *)

\* lines 336-339: the four player dicts are cleared
ResetStates ==
    /\ mpc = "idle"
    /\ player1_inputs' = EmptyDict
    /\ player1_axes' = EmptyDict
    /\ player2_inputs' = EmptyDict
    /\ player2_axes' = EmptyDict
    /\ player1_failed' = FALSE
    /\ player2_failed' = FALSE
    /\ mpc' = "p1"
    /\ UNCHANGED <<player1_id, player2_id, combined_state, combined_axes,
                   merger_is_running, overwritten>>
    /\ UNCHANGED <<driverVars, heldVars, threadVars, apiVars>>
    /\ UNCHANGED <<encoderVars, appVars>>

\* lines 342-363 without the test of line 342: the read is made whether or
\* not a controller is assigned to player 1
ReadPlayer1_IgnoresUnassigned ==
    /\ mpc = "p1"
    /\ \E r \in ReadOutcomes, failed \in BOOLEAN :
         /\ failed => r \in FailedReads
         /\ player1_inputs' = r.inputs
         /\ player1_axes' = r.axes
         /\ player1_failed' = failed
    /\ mpc' = "p2"
    /\ UNCHANGED <<player1_id, player2_id, player2_inputs, player2_axes,
                   player2_failed,
                   combined_state, combined_axes, merger_is_running,
                   overwritten>>
    /\ UNCHANGED <<driverVars, heldVars, threadVars, apiVars>>
    /\ UNCHANGED <<encoderVars, appVars>>

\* lines 342-363: player 1's controller, if one is assigned
ReadPlayer1 ==
    /\ mpc = "p1"
    /\ IF player1_id = "None"
         THEN UNCHANGED <<player1_inputs, player1_axes, player1_failed>>
         ELSE \E r \in ReadOutcomes, failed \in BOOLEAN :
                /\ failed => r \in FailedReads
                /\ player1_inputs' = r.inputs
                /\ player1_axes' = r.axes
                /\ player1_failed' = failed
    /\ mpc' = "p2"
    /\ UNCHANGED <<player1_id, player2_id, player2_inputs, player2_axes,
                   player2_failed,
                   combined_state, combined_axes, merger_is_running,
                   overwritten>>
    /\ UNCHANGED <<driverVars, heldVars, threadVars, apiVars>>
    /\ UNCHANGED <<encoderVars, appVars>>

\* lines 366-387: player 2's controller, if one is assigned
ReadPlayer2 ==
    /\ mpc = "p2"
    /\ IF player2_id = "None"
         THEN UNCHANGED <<player2_inputs, player2_axes, player2_failed>>
         ELSE \E r \in ReadOutcomes, failed \in BOOLEAN :
                /\ failed => r \in FailedReads
                /\ player2_inputs' = r.inputs
                /\ player2_axes' = r.axes
                /\ player2_failed' = failed
    /\ mpc' = "combine"
    /\ UNCHANGED <<player1_id, player2_id, player1_inputs, player1_axes,
                   player1_failed,
                   combined_state, combined_axes, merger_is_running,
                   overwritten>>
    /\ UNCHANGED <<driverVars, heldVars, threadVars, apiVars>>
    /\ UNCHANGED <<encoderVars, appVars>>

\* lines 279-281, on the cleared combined_state
CombineButtonsP1(p1) ==
    [k \in {b \in DOMAIN p1 : p1[b]} |-> TRUE]

\* lines 283-286 left out: player 2's buttons never reach the merged state
CombineButtonsP2_Dropped(c, p2) == c

\* lines 283-286
CombineButtonsP2(c, p2) ==
    LET add == {b \in DOMAIN p2 : p2[b] /\ ~Get(c, b, FALSE)}
    IN  [k \in DOMAIN c \cup add |-> IF k \in add THEN TRUE ELSE c[k]]

\* line 292 with >= for >: a value on the edge of the deadzone counts as input
CombineAxesP1_Inclusive(p1) ==
    [k \in {a \in DOMAIN p1 : Abs(p1[a]) >= Deadzone} |-> p1[k]]

\* lines 290-293, on the cleared combined_axes
CombineAxesP1(p1) ==
    [k \in {a \in DOMAIN p1 : Abs(p1[a]) > Deadzone} |-> p1[k]]

\* line 297 without its first test: player 2's value is taken as reported
\* whenever player 1 is inside the deadzone
CombineAxesP2_Raw(c, p2) ==
    LET add == {a \in DOMAIN p2 : Abs(Get(c, a, 0)) <= Deadzone}
    IN  [k \in DOMAIN c \cup add |-> IF k \in add THEN p2[k] ELSE c[k]]

\* lines 295-298
CombineAxesP2(c, p2) ==
    LET add == {a \in DOMAIN p2 :
                  Abs(p2[a]) > Deadzone /\ Abs(Get(c, a, 0)) <= Deadzone}
    IN  [k \in DOMAIN c \cup add |-> IF k \in add THEN p2[k] ELSE c[k]]

\* the merged dicts had a key that they have no more
Overwritten ==
    \/ DOMAIN combined_state \ DOMAIN combined_state' # {}
    \/ DOMAIN combined_axes \ DOMAIN combined_axes' # {}

\* combine_inputs without lines 274-275: the items of this pass are written
\* over what the merged dicts held
CombineInputs_NoClear ==
    /\ mpc = "combine"
    /\ combined_state' =
         CombineButtonsP2(Merge(combined_state, CombineButtonsP1(player1_inputs)),
                          player2_inputs)
    /\ combined_axes' =
         CombineAxesP2(Merge(combined_axes, CombineAxesP1(player1_axes)),
                       player2_axes)
    /\ overwritten' = Overwritten
    /\ IF merger_is_running
         THEN update_state(combined_state', combined_axes')
         ELSE UNCHANGED heldVars
    /\ mpc' = "idle"
    /\ UNCHANGED <<player1_id, player2_id, playerVars, merger_is_running>>
    /\ UNCHANGED <<driverVars, threadVars, apiVars>>
    /\ UNCHANGED <<encoderVars, appVars>>

\* combine_inputs, lines 271-302
CombineInputs ==
    /\ mpc = "combine"
    /\ combined_state' =
         CombineButtonsP2(CombineButtonsP1(player1_inputs), player2_inputs)
    /\ combined_axes' =
         CombineAxesP2(CombineAxesP1(player1_axes), player2_axes)
    /\ overwritten' = Overwritten
    /\ IF merger_is_running
         THEN update_state(combined_state', combined_axes')
         ELSE UNCHANGED heldVars
    /\ mpc' = "idle"
    /\ UNCHANGED <<player1_id, player2_id, playerVars, merger_is_running>>
    /\ UNCHANGED <<driverVars, threadVars, apiVars>>
    /\ UNCHANGED <<encoderVars, appVars>>

----------------------------------------------------------------------------
(* VirtualController.start and stop.  They are called from one thread at a  *)
(* time (api_pc); stop() blocks that thread in join().                      *)

\* the threads start() has created so far
Created == {t \in Threads : pc[t] # "none"}

\* where a thread is once its loop has returned: "done" through the loop
\* test, "failed" through the except clause
Ended == {"done", "failed"}

\* the loops that have not returned
Live == {t \in Threads : pc[t] \notin {"none"} \cup Ended}

\* start() without lines 33-35: the output thread is created whether or not
\* the controller was initialized
Start_NoInitCheck ==
    /\ api_pc = "idle"
    /\ \E t \in Threads \ Created :
         /\ \A u \in Threads \ Created : t <= u
         /\ output_thread' = t
         /\ pc' = [pc EXCEPT ![t] = "check"]
    /\ is_running' = TRUE
    /\ last_call' = [op |-> "start", ret |-> "True"]
    /\ UNCHANGED <<is_initialized, active_buttons, active_axes>>
    /\ UNCHANGED <<api_pc, heldVars, mergerVars>>
    /\ UNCHANGED <<encoderVars, appVars>>

\* the body of start(), lines 33-41, for whichever thread calls it
StartBody ==
    IF ~is_initialized
      THEN /\ last_call' = [op |-> "start", ret |-> "False"]
           /\ UNCHANGED <<driverVars, threadVars>>
      ELSE /\ \E t \in Threads \ Created :
                /\ \A u \in Threads \ Created : t <= u
                /\ output_thread' = t
                /\ pc' = [pc EXCEPT ![t] = "check"]
           /\ is_running' = TRUE
           /\ last_call' = [op |-> "start", ret |-> "True"]
           /\ UNCHANGED <<is_initialized, active_buttons, active_axes>>

\* start(), lines 31-41
Start ==
    /\ api_pc = "idle"
    /\ StartBody
    /\ UNCHANGED <<api_pc, heldVars, mergerVars>>
    /\ UNCHANGED <<encoderVars, appVars>>

\* stop() without lines 45-46: the join is entered whether or not the
\* controller is running
Stop_NoGuard ==
    /\ api_pc = "idle"
    /\ is_running' = FALSE
    /\ IF output_thread # 0
         THEN /\ api_pc' = "joining"
              /\ last_call' = [op |-> "stop", ret |-> "pending"]
         ELSE /\ api_pc' = "idle"
              /\ last_call' = [op |-> "stop", ret |-> "None"]
    /\ UNCHANGED <<is_initialized, output_thread>>
    /\ UNCHANGED <<threadVars, heldVars, mergerVars>>
    /\ UNCHANGED <<encoderVars, appVars>>

\* stop() without line 48: the running flag is never cleared
Stop_KeepsRunning ==
    /\ api_pc = "idle"
    /\ IF ~is_running
         THEN /\ last_call' = [op |-> "stop", ret |-> "None"]
              /\ UNCHANGED api_pc
         ELSE IF output_thread # 0
                THEN /\ api_pc' = "joining"
                     /\ last_call' = [op |-> "stop", ret |-> "pending"]
                ELSE /\ api_pc' = "idle"
                     /\ last_call' = [op |-> "stop", ret |-> "None"]
    /\ UNCHANGED driverVars
    /\ UNCHANGED <<threadVars, heldVars, mergerVars>>
    /\ UNCHANGED <<encoderVars, appVars>>

\* the body of stop(), lines 45-50, up to the join, for whichever thread
\* calls it
StopBody ==
    IF ~is_running
      THEN /\ last_call' = [op |-> "stop", ret |-> "None"]
           /\ UNCHANGED <<driverVars, api_pc>>
      ELSE /\ is_running' = FALSE
           /\ IF output_thread # 0
                THEN /\ api_pc' = "joining"
                     /\ last_call' = [op |-> "stop", ret |-> "pending"]
                ELSE /\ api_pc' = "idle"
                     /\ last_call' = [op |-> "stop", ret |-> "None"]
           /\ UNCHANGED <<is_initialized, output_thread>>

\* stop(), lines 43-50: up to the join
Stop ==
    /\ api_pc = "idle"
    /\ StopBody
    /\ UNCHANGED <<threadVars, heldVars, mergerVars>>
    /\ UNCHANGED <<encoderVars, appVars>>

\* stop(), lines 50-51: join returns because the thread has ended
JoinExit ==
    /\ api_pc = "joining"
    /\ pc[output_thread] \in Ended
    /\ api_pc' = "idle"
    /\ last_call' = [op |-> "stop", ret |-> "None"]
    /\ UNCHANGED <<driverVars, threadVars, heldVars, mergerVars>>
    /\ UNCHANGED <<encoderVars, appVars>>

\* stop(), lines 50-51: join(timeout=1.0) returns with the thread still alive
JoinTimeout ==
    /\ api_pc = "joining"
    /\ pc[output_thread] \notin Ended
    /\ api_pc' = "idle"
    /\ last_call' = [op |-> "stop", ret |-> "None"]
    /\ UNCHANGED <<driverVars, threadVars, heldVars, mergerVars>>
    /\ UNCHANGED <<encoderVars, appVars>>

\* What the callers of update_state pass: three snapshots, no two of them
\* with the same buttons or the same axes.
\*   button_0 pressed, axis_0 at 0.504
\*   button_0 released, axis_0 at -0.8
\*   no button, axis_0 at 0.05 (nothing active)
Snapshots ==
    { [buttons |-> [k \in {"button_0"} |-> TRUE],
       axes    |-> [k \in {"axis_0"} |-> 504]],
      [buttons |-> [k \in {"button_0"} |-> FALSE],
       axes    |-> [k \in {"axis_0"} |-> -800]],
      [buttons |-> EmptyDict,
       axes    |-> [k \in {"axis_0"} |-> 50]] }

\* a call of update_state, lines 53-58, from the merger's thread
UpdateState ==
    /\ \E s \in Snapshots : update_state(s.buttons, s.axes)
    /\ UNCHANGED <<driverVars, threadVars, apiVars, mergerVars>>
    /\ UNCHANGED <<encoderVars, appVars>>

----------------------------------------------------------------------------
(* VirtualController._output_loop, one instance per created thread *)

\* round(v, 2): to the nearest hundredth, a tie to the even one
Round2(v) ==
    LET q == v \div 10
        r == v % 10
    IN  IF r < 5 THEN 10 * q
        ELSE IF r > 5 THEN 10 * (q + 1)
        ELSE IF q % 2 = 0 THEN 10 * q ELSE 10 * (q + 1)

\* line 70: [k for k, v in buttons.items() if v]
ActiveButtonsOf(buttons) == {k \in DOMAIN buttons : buttons[k]}

\* line 71: {k: round(v, 2) for k, v in axes.items() if abs(v) > 0.1}
ActiveAxesOf(axes) ==
    [k \in {a \in DOMAIN axes : Abs(axes[a]) > Deadzone} |-> Round2(axes[k])]

\* the locals of a tick are dead once it sleeps: the next tick assigns both
\* before it reads either
Forget(t) ==
    /\ active_buttons' = [active_buttons EXCEPT ![t] = {}]
    /\ active_axes' = [active_axes EXCEPT ![t] = EmptyDict]

\* self.state["buttons"] when update_state keeps the caller's dict instead
\* of buttons.copy(): the loop sees the merger's combined_state as it is now
HeldButtons_Aliased ==
    IF "buttons" \in DOMAIN state THEN combined_state ELSE EmptyDict

\* line 70: self.state.get("buttons", {}), the copy update_state made
HeldButtons == Get(state, "buttons", EmptyDict)

\* line 71: self.state.get("axes", {}), the copy update_state made
HeldAxes == Get(state, "axes", EmptyDict)

\* line 65: while self.is_running
LoopCheck(t) ==
    /\ pc[t] = "check"
    /\ pc' = [pc EXCEPT ![t] = IF is_running THEN "buttons" ELSE "done"]
    /\ UNCHANGED <<active_buttons, active_axes>>
    /\ UNCHANGED <<driverVars, heldVars, apiVars, mergerVars>>
    /\ UNCHANGED <<encoderVars, appVars>>

\* line 70: self.state is read for its buttons
ReadButtons(t) ==
    /\ pc[t] = "buttons"
    /\ active_buttons' = [active_buttons EXCEPT ![t] =
                             ActiveButtonsOf(HeldButtons)]
    /\ pc' = [pc EXCEPT ![t] = "axes"]
    /\ UNCHANGED active_axes
    /\ UNCHANGED <<driverVars, heldVars, apiVars, mergerVars>>
    /\ UNCHANGED <<encoderVars, appVars>>

\* lines 71-73: self.state is read again, for its axes; then the test of
\* whether anything is active
ReadAxes(t) ==
    /\ pc[t] = "axes"
    /\ LET act == ActiveAxesOf(HeldAxes)
       IN  /\ active_axes' = [active_axes EXCEPT ![t] = act]
           /\ pc' = [pc EXCEPT ![t] =
                       IF active_buttons[t] # {} \/ DOMAIN act # {}
                         THEN "log" ELSE "sleep"]
    /\ UNCHANGED active_buttons
    /\ UNCHANGED <<driverVars, heldVars, apiVars, mergerVars>>
    /\ UNCHANGED <<encoderVars, appVars>>

\* line 74: "Sending to virtual controller: Buttons: ..., Axes: ..."
LogSend(t) ==
    /\ pc[t] = "log"
    /\ pc' = [pc EXCEPT ![t] = "sleep"]
    /\ UNCHANGED <<active_buttons, active_axes>>
    /\ UNCHANGED <<driverVars, heldVars, apiVars, mergerVars>>
    /\ UNCHANGED <<encoderVars, appVars>>

\* line 80: time.sleep(0.01), back to the loop test
Sleep(t) ==
    /\ pc[t] = "sleep"
    /\ pc' = [pc EXCEPT ![t] = "check"]
    /\ Forget(t)
    /\ UNCHANGED <<driverVars, heldVars, apiVars, mergerVars>>
    /\ UNCHANGED <<encoderVars, appVars>>

\* lines 82-83 without line 84: the error is logged and the thread returns
\* with the running flag as it was
LoopRaise_KeepsRunning(t) ==
    /\ pc[t] \in {"buttons", "axes", "log", "sleep"}
    /\ pc' = [pc EXCEPT ![t] = "failed"]
    /\ Forget(t)
    /\ UNCHANGED <<is_initialized, is_running, output_thread>>
    /\ UNCHANGED <<heldVars, apiVars, mergerVars>>
    /\ UNCHANGED <<encoderVars, appVars>>

\* lines 82-84: an exception raised inside the loop body.  The try encloses
\* the whole while loop, so the first exception ends the loop.
LoopRaise(t) ==
    /\ pc[t] \in {"buttons", "axes", "log", "sleep"}
    /\ is_running' = FALSE
    /\ pc' = [pc EXCEPT ![t] = "failed"]
    /\ Forget(t)
    /\ UNCHANGED <<is_initialized, output_thread>>
    /\ UNCHANGED <<heldVars, apiVars, mergerVars>>
    /\ UNCHANGED <<encoderVars, appVars>>

\* the steps of thread t that the scheduler runs
LoopStep(t) ==
    \/ LoopCheck(t)
    \/ ReadButtons(t)
    \/ ReadAxes(t)
    \/ LogSend(t)
    \/ Sleep(t)

----------------------------------------------------------------------------
(* The application: the Tk main thread runs the button handlers and         *)
(* update_ui, one after another; every successful start_merging creates a   *)
(* merger thread and, through start(), an output thread.  No lock guards    *)
(* the dicts the threads share.                                             *)

\* what a poll of an assigned controller returns here: button_0 held down
\* and axis_0 held at 0.504, read without an error
PolledReads ==
    { [inputs |-> [k \in {"button_0"} |-> TRUE],
       axes   |-> [k \in {"axis_0"} |-> 504]] }

\* the merger threads created so far, and those whose loop has not returned
MergersCreated == {m \in Threads : merger_pc[m] # "none"}
LiveMergers == {m \in Threads : merger_pc[m] \notin {"none", "done"}}

\* lines 336-339, by whichever thread runs update_controller_states
ClearPlayers ==
    /\ player1_inputs' = EmptyDict
    /\ player1_axes' = EmptyDict
    /\ player2_inputs' = EmptyDict
    /\ player2_axes' = EmptyDict
    /\ player1_failed' = FALSE
    /\ player2_failed' = FALSE

\* lines 342-363, by whichever thread runs update_controller_states
PollPlayer1 ==
    /\ IF player1_id = "None"
         THEN UNCHANGED <<player1_inputs, player1_axes>>
         ELSE \E r \in PolledReads :
                /\ player1_inputs' = r.inputs
                /\ player1_axes' = r.axes
    /\ UNCHANGED <<player2_inputs, player2_axes, player1_failed, player2_failed>>

\* lines 366-387, by whichever thread runs update_controller_states
PollPlayer2 ==
    /\ IF player2_id = "None"
         THEN UNCHANGED <<player2_inputs, player2_axes>>
         ELSE \E r \in PolledReads :
                /\ player2_inputs' = r.inputs
                /\ player2_axes' = r.axes
    /\ UNCHANGED <<player1_inputs, player1_axes, player1_failed, player2_failed>>

\* lines 248-254: the flag is set and the merger thread is created
BeginMerging ==
    /\ merger_is_running' = TRUE
    /\ \E m \in Threads \ MergersCreated :
         /\ \A n \in Threads \ MergersCreated : m <= n
         /\ merger_pc' = [merger_pc EXCEPT ![m] = "check"]

\* start_merging without lines 237-240: start() is called whether or not the
\* virtual controller was initialized, and its result decides
StartMerging_NoInitCheck ==
    /\ ui_pc = "idle" /\ api_pc = "idle"
    /\ ~merger_is_running
    /\ IF player1_id = "None" /\ player2_id = "None"
         THEN /\ merging_call' = "no controller"
              /\ UNCHANGED <<merger_is_running, merger_pc, driverVars,
                             threadVars, last_call>>
         ELSE /\ StartBody
              /\ IF last_call'.ret = "True"
                   THEN /\ BeginMerging
                        /\ merging_call' = "started"
                   ELSE /\ merging_call' = "start failed"
                        /\ UNCHANGED <<merger_is_running, merger_pc>>
    /\ UNCHANGED <<player1_id, player2_id, playerVars, combined_state,
                   combined_axes, mpc, overwritten>>
    /\ UNCHANGED <<api_pc, ui_pc, merger_join, heldVars, encoderVars>>

\* start_merging, lines 230-256.  The start button is enabled only while the
\* merger is not running (lines 249 and 262).
StartMerging ==
    /\ ui_pc = "idle" /\ api_pc = "idle"
    /\ ~merger_is_running
    /\ IF player1_id = "None" /\ player2_id = "None"
         THEN /\ merging_call' = "no controller"
              /\ UNCHANGED <<merger_is_running, merger_pc, driverVars,
                             threadVars, last_call>>
         ELSE IF ~is_initialized
         THEN /\ merging_call' = "not initialized"
              /\ UNCHANGED <<merger_is_running, merger_pc, driverVars,
                             threadVars, last_call>>
         ELSE /\ StartBody
              /\ IF last_call'.ret = "True"
                   THEN /\ BeginMerging
                        /\ merging_call' = "started"
                   ELSE /\ merging_call' = "start failed"
                        /\ UNCHANGED <<merger_is_running, merger_pc>>
    /\ UNCHANGED <<player1_id, player2_id, playerVars, combined_state,
                   combined_axes, mpc, overwritten>>
    /\ UNCHANGED <<api_pc, ui_pc, merger_join, heldVars, encoderVars>>

\* stop_merging, lines 259-268, up to the join inside stop().  The stop
\* button is enabled only while the merger is running (lines 250 and 263).
StopMerging ==
    /\ ui_pc = "idle" /\ api_pc = "idle"
    /\ merger_is_running
    /\ merger_is_running' = FALSE
    /\ StopBody
    /\ UNCHANGED <<player1_id, player2_id, playerVars, combined_state,
                   combined_axes, mpc, overwritten>>
    /\ UNCHANGED <<threadVars, heldVars, encoderVars, appVars>>

\* update_ui, lines 204-205: update_controller_states on the Tk main thread
UiReset ==
    /\ ui_pc = "idle" /\ api_pc = "idle"
    /\ merger_is_running
    /\ ClearPlayers
    /\ ui_pc' = "p1"
    /\ UNCHANGED <<player1_id, player2_id, combined_state, combined_axes,
                   merger_is_running, mpc, overwritten, merger_pc,
                   merging_call, merger_join>>
    /\ UNCHANGED <<driverVars, heldVars, threadVars, apiVars, encoderVars>>

UiReadP1 ==
    /\ ui_pc = "p1"
    /\ PollPlayer1
    /\ ui_pc' = "p2"
    /\ UNCHANGED <<player1_id, player2_id, combined_state, combined_axes,
                   merger_is_running, mpc, overwritten, merger_pc,
                   merging_call, merger_join>>
    /\ UNCHANGED <<driverVars, heldVars, threadVars, apiVars, encoderVars>>

\* the pass ends and update_ui draws the three controllers (lines 206-208)
UiReadP2 ==
    /\ ui_pc = "p2"
    /\ PollPlayer2
    /\ ui_pc' = "idle"
    /\ UNCHANGED <<player1_id, player2_id, combined_state, combined_axes,
                   merger_is_running, mpc, overwritten, merger_pc,
                   merging_call, merger_join>>
    /\ UNCHANGED <<driverVars, heldVars, threadVars, apiVars, encoderVars>>

\* merger_loop, line 312: while self.is_running
MergerCheck(m) ==
    /\ merger_pc[m] = "check"
    /\ merger_pc' = [merger_pc EXCEPT ![m] =
                       IF merger_is_running THEN "reset" ELSE "done"]
    /\ UNCHANGED <<player1_id, player2_id, playerVars, combined_state,
                   combined_axes, merger_is_running, mpc, overwritten, ui_pc,
                   merging_call, merger_join>>
    /\ UNCHANGED <<driverVars, heldVars, threadVars, apiVars, encoderVars>>

\* merger_loop, line 317: update_controller_states, lines 336-339
MergerReset(m) ==
    /\ merger_pc[m] = "reset"
    /\ ClearPlayers
    /\ merger_pc' = [merger_pc EXCEPT ![m] = "p1"]
    /\ UNCHANGED <<player1_id, player2_id, combined_state, combined_axes,
                   merger_is_running, mpc, overwritten, ui_pc,
                   merging_call, merger_join>>
    /\ UNCHANGED <<driverVars, heldVars, threadVars, apiVars, encoderVars>>

MergerReadP1(m) ==
    /\ merger_pc[m] = "p1"
    /\ PollPlayer1
    /\ merger_pc' = [merger_pc EXCEPT ![m] = "p2"]
    /\ UNCHANGED <<player1_id, player2_id, combined_state, combined_axes,
                   merger_is_running, mpc, overwritten, ui_pc,
                   merging_call, merger_join>>
    /\ UNCHANGED <<driverVars, heldVars, threadVars, apiVars, encoderVars>>

MergerReadP2(m) ==
    /\ merger_pc[m] = "p2"
    /\ PollPlayer2
    /\ merger_pc' = [merger_pc EXCEPT ![m] = "clear"]
    /\ UNCHANGED <<player1_id, player2_id, combined_state, combined_axes,
                   merger_is_running, mpc, overwritten, ui_pc,
                   merging_call, merger_join>>
    /\ UNCHANGED <<driverVars, heldVars, threadVars, apiVars, encoderVars>>

\* merger_loop, line 320: combine_inputs, lines 274-275
MergerClear(m) ==
    /\ merger_pc[m] = "clear"
    /\ combined_state' = EmptyDict
    /\ combined_axes' = EmptyDict
    /\ merger_pc' = [merger_pc EXCEPT ![m] = "fill"]
    /\ UNCHANGED <<player1_id, player2_id, playerVars, merger_is_running, mpc,
                   overwritten, ui_pc,
                   merging_call, merger_join>>
    /\ UNCHANGED <<driverVars, heldVars, threadVars, apiVars, encoderVars>>

\* combine_inputs, lines 278-302: the items of the player dicts as they are
\* now are written into the merged dicts as they are now, and the result is
\* handed to update_state
MergerFill(m) ==
    /\ merger_pc[m] = "fill"
    /\ combined_state' =
         CombineButtonsP2(Merge(combined_state, CombineButtonsP1(player1_inputs)),
                          player2_inputs)
    /\ combined_axes' =
         CombineAxesP2(Merge(combined_axes, CombineAxesP1(player1_axes)),
                       player2_axes)
    /\ IF merger_is_running
         THEN update_state(combined_state', combined_axes')
         ELSE UNCHANGED heldVars
    /\ merger_pc' = [merger_pc EXCEPT ![m] = "sleep"]
    /\ UNCHANGED <<player1_id, player2_id, playerVars, merger_is_running, mpc,
                   overwritten, ui_pc,
                   merging_call, merger_join>>
    /\ UNCHANGED <<driverVars, threadVars, apiVars, encoderVars>>

\* merger_loop, line 327: time.sleep(0.01), back to the loop test
MergerSleep(m) ==
    /\ merger_pc[m] = "sleep"
    /\ merger_pc' = [merger_pc EXCEPT ![m] = "check"]
    /\ UNCHANGED <<player1_id, player2_id, playerVars, combined_state,
                   combined_axes, merger_is_running, mpc, overwritten, ui_pc,
                   merging_call, merger_join>>
    /\ UNCHANGED <<driverVars, heldVars, threadVars, apiVars, encoderVars>>

----------------------------------------------------------------------------
(* Initial states *)

\* ControllerMerger.__init__, lines 38-49
MergerInit ==
    /\ player1_id = "None"
    /\ player2_id = "None"
    /\ player1_inputs = EmptyDict
    /\ player1_axes = EmptyDict
    /\ player2_inputs = EmptyDict
    /\ player2_axes = EmptyDict
    /\ player1_failed = FALSE
    /\ player2_failed = FALSE
    /\ combined_state = EmptyDict
    /\ combined_axes = EmptyDict
    /\ merger_is_running = FALSE
    /\ mpc = "idle"
    /\ overwritten = FALSE
    /\ merger_pc = [t \in Threads |-> "none"]
    /\ ui_pc = "idle"
    /\ merging_call = "none"
    /\ merger_join = [t \in Threads |-> 0]

\* VirtualController.__init__: is_initialized stays False when the try block
\* raises
DriverInit ==
    /\ is_initialized \in BOOLEAN
    /\ is_running = FALSE
    /\ output_thread = 0
    /\ state = EmptyDict
    /\ last_update = [called |-> FALSE, buttons |-> EmptyDict, axes |-> EmptyDict]
    /\ pc = [t \in Threads |-> "none"]
    /\ active_buttons = [t \in Threads |-> {}]
    /\ active_axes = [t \in Threads |-> EmptyDict]
    /\ api_pc = "idle"
    /\ last_call = [op |-> "none", ret |-> "none"]

\* the report encoder before it is given anything to encode
EncoderIdle ==
    /\ axis_values = <<0, 0>>
    /\ axis_bytes = <<>>

----------------------------------------------------------------------------
(* The merge engine on every pair of player snapshots: the players are       *)
(* assigned or not, the merger is running or not, and each pass clears,     *)
(* reads both players and combines.                                         *)

MergeInit ==
    /\ player1_id \in {"None", "0"}
    /\ player2_id \in {"None", "1"}
    /\ player1_inputs = EmptyDict
    /\ player1_axes = EmptyDict
    /\ player2_inputs = EmptyDict
    /\ player2_axes = EmptyDict
    /\ player1_failed = FALSE
    /\ player2_failed = FALSE
    /\ combined_state = EmptyDict
    /\ combined_axes = EmptyDict
    /\ merger_is_running \in BOOLEAN
    /\ mpc = "idle"
    /\ overwritten = FALSE
    /\ merger_pc = [t \in Threads |-> "none"]
    /\ ui_pc = "idle"
    /\ merging_call = "none"
    /\ merger_join = [t \in Threads |-> 0]
    /\ DriverInit
    /\ is_initialized = TRUE
    /\ EncoderIdle

MergeNext ==
    \/ ResetStates
    \/ ReadPlayer1
    \/ ReadPlayer2
    \/ CombineInputs

MergeSpec == MergeInit /\ [][MergeNext]_vars

----------------------------------------------------------------------------
(* The output driver with its callers: start(), stop() and update_state()   *)
(* in any order, against the output threads.                                *)

DriverInitAll == MergerInit /\ DriverInit /\ EncoderIdle

DriverNext ==
    \/ Start
    \/ Stop
    \/ JoinExit
    \/ JoinTimeout
    \/ UpdateState
    \/ \E t \in Threads : LoopCheck(t)
    \/ \E t \in Threads : ReadButtons(t)
    \/ \E t \in Threads : ReadAxes(t)
    \/ \E t \in Threads : LogSend(t)
    \/ \E t \in Threads : Sleep(t)
    \/ \E t \in Threads : LoopRaise(t)

DriverSpec == DriverInitAll /\ [][DriverNext]_vars

\* every started thread keeps being scheduled
DriverFairSpec ==
    DriverInitAll /\ [][DriverNext]_vars /\ \A t \in Threads : WF_vars(LoopStep(t))

----------------------------------------------------------------------------
(* The application, from the window as constructed with the players chosen  *)
(* in the two combo boxes (on_p1_selected, on_p2_selected).                 *)

AppInit ==
    /\ player1_id \in {"None", "0"}
    /\ player2_id \in {"None", "1"}
    /\ player1_inputs = EmptyDict
    /\ player1_axes = EmptyDict
    /\ player2_inputs = EmptyDict
    /\ player2_axes = EmptyDict
    /\ player1_failed = FALSE
    /\ player2_failed = FALSE
    /\ combined_state = EmptyDict
    /\ combined_axes = EmptyDict
    /\ merger_is_running = FALSE
    /\ mpc = "idle"
    /\ overwritten = FALSE
    /\ merger_pc = [t \in Threads |-> "none"]
    /\ ui_pc = "idle"
    /\ merging_call = "none"
    /\ merger_join = [t \in Threads |-> 0]
    /\ DriverInit
    /\ EncoderIdle

AppNext ==
    \/ StartMerging
    \/ StopMerging
    \/ JoinExit
    \/ JoinTimeout
    \/ UiReset
    \/ UiReadP1
    \/ UiReadP2
    \/ \E m \in Threads : MergerCheck(m)
    \/ \E m \in Threads : MergerReset(m)
    \/ \E m \in Threads : MergerReadP1(m)
    \/ \E m \in Threads : MergerReadP2(m)
    \/ \E m \in Threads : MergerClear(m)
    \/ \E m \in Threads : MergerFill(m)
    \/ \E m \in Threads : MergerSleep(m)
    \/ \E t \in Threads : LoopCheck(t)
    \/ \E t \in Threads : ReadButtons(t)
    \/ \E t \in Threads : ReadAxes(t)
    \/ \E t \in Threads : LogSend(t)
    \/ \E t \in Threads : Sleep(t)
    \/ \E t \in Threads : LoopRaise(t)

AppSpec == AppInit /\ [][AppNext]_vars

\* The hand-over of the merged snapshot alone: the threads that write the
\* merged dicts and the held state (the merger loops, and the handlers that
\* start and stop them) against the threads that read the held state (the
\* output loops).  update_ui writes neither and is left out; and the join in
\* stop() returns because the output thread has ended (a tick sleeps 10 ms,
\* the join waits 1 s), so that one output loop runs at a time.
HandoverNext ==
    \/ StartMerging
    \/ StopMerging
    \/ JoinExit
    \/ \E m \in Threads : MergerCheck(m)
    \/ \E m \in Threads : MergerReset(m)
    \/ \E m \in Threads : MergerReadP1(m)
    \/ \E m \in Threads : MergerReadP2(m)
    \/ \E m \in Threads : MergerClear(m)
    \/ \E m \in Threads : MergerFill(m)
    \/ \E m \in Threads : MergerSleep(m)
    \/ \E t \in Threads : LoopCheck(t)
    \/ \E t \in Threads : ReadButtons(t)
    \/ \E t \in Threads : ReadAxes(t)
    \/ \E t \in Threads : LogSend(t)
    \/ \E t \in Threads : Sleep(t)
    \/ \E t \in Threads : LoopRaise(t)

HandoverSpec == AppInit /\ [][HandoverNext]_vars

----------------------------------------------------------------------------
(* A failing merger loop: the except clause of merger_loop runs             *)
(* stop_merging on the merger thread, beside the Tk main thread's handlers. *)

\* where an iteration of the merger loop can raise: pygame.event.pump() at
\* line 314, and combine_inputs at line 320, whose loops over the players'
\* dicts fail when the Tk main thread's poll resizes a dict under them
RaisePoints == {"reset", "fill"}

\* merger_loop, lines 329-331, and stop_merging, line 261: the exception
\* leaves the loop, is logged, and stop_merging clears the merger's flag
MergerRaise(m) ==
    /\ merger_pc[m] \in RaisePoints
    /\ merger_is_running' = FALSE
    /\ merger_pc' = [merger_pc EXCEPT ![m] = "stopping"]
    /\ UNCHANGED <<player1_id, player2_id, playerVars, combined_state,
                   combined_axes, mpc, overwritten, ui_pc, merging_call,
                   merger_join>>
    /\ UNCHANGED <<driverVars, heldVars, threadVars, apiVars, encoderVars>>

\* stop_merging, line 266, on the merger thread: stop(), lines 43-50, up to
\* the join; without a join stop_merging returns and merger_loop ends
MergerStop(m) ==
    /\ merger_pc[m] = "stopping"
    /\ IF ~is_running
         THEN /\ last_call' = [op |-> "stop", ret |-> "None"]
              /\ merger_pc' = [merger_pc EXCEPT ![m] = "done"]
              /\ UNCHANGED <<driverVars, merger_join>>
         ELSE /\ is_running' = FALSE
              /\ IF output_thread # 0
                   THEN /\ merger_join' =
                             [merger_join EXCEPT ![m] = output_thread]
                        /\ merger_pc' = [merger_pc EXCEPT ![m] = "joining"]
                        /\ last_call' = [op |-> "stop", ret |-> "pending"]
                   ELSE /\ merger_pc' = [merger_pc EXCEPT ![m] = "done"]
                        /\ last_call' = [op |-> "stop", ret |-> "None"]
                        /\ UNCHANGED merger_join
              /\ UNCHANGED <<is_initialized, output_thread>>
    /\ UNCHANGED <<player1_id, player2_id, playerVars, combined_state,
                   combined_axes, merger_is_running, mpc, overwritten, ui_pc,
                   merging_call>>
    /\ UNCHANGED <<api_pc, heldVars, threadVars, encoderVars>>

\* stop(), lines 50-51, on the merger thread: join returns because the
\* output thread has ended; stop_merging returns and merger_loop ends
MergerJoinExit(m) ==
    /\ merger_pc[m] = "joining"
    /\ pc[merger_join[m]] \in Ended
    /\ merger_pc' = [merger_pc EXCEPT ![m] = "done"]
    /\ merger_join' = [merger_join EXCEPT ![m] = 0]
    /\ UNCHANGED <<player1_id, player2_id, playerVars, combined_state,
                   combined_axes, merger_is_running, mpc, overwritten, ui_pc,
                   merging_call>>
    /\ UNCHANGED <<driverVars, heldVars, threadVars, apiVars, encoderVars>>

\* stop(), lines 50-51, on the merger thread: join(timeout=1.0) returns with
\* the output thread still alive
MergerJoinTimeout(m) ==
    /\ merger_pc[m] = "joining"
    /\ pc[merger_join[m]] \notin Ended
    /\ merger_pc' = [merger_pc EXCEPT ![m] = "done"]
    /\ merger_join' = [merger_join EXCEPT ![m] = 0]
    /\ UNCHANGED <<player1_id, player2_id, playerVars, combined_state,
                   combined_axes, merger_is_running, mpc, overwritten, ui_pc,
                   merging_call>>
    /\ UNCHANGED <<driverVars, heldVars, threadVars, apiVars, encoderVars>>

\* what a merger thread does by itself once started: everything but the
\* exception
MergerStep(m) ==
    \/ MergerCheck(m)
    \/ MergerReset(m)
    \/ MergerReadP1(m)
    \/ MergerReadP2(m)
    \/ MergerClear(m)
    \/ MergerFill(m)
    \/ MergerSleep(m)
    \/ MergerStop(m)
    \/ MergerJoinExit(m)
    \/ MergerJoinTimeout(m)

FailoverNext ==
    \/ StartMerging
    \/ StopMerging
    \/ JoinExit
    \/ JoinTimeout
    \/ \E m \in Threads : MergerCheck(m)
    \/ \E m \in Threads : MergerReset(m)
    \/ \E m \in Threads : MergerReadP1(m)
    \/ \E m \in Threads : MergerReadP2(m)
    \/ \E m \in Threads : MergerClear(m)
    \/ \E m \in Threads : MergerFill(m)
    \/ \E m \in Threads : MergerSleep(m)
    \/ \E m \in Threads : MergerRaise(m)
    \/ \E m \in Threads : MergerStop(m)
    \/ \E m \in Threads : MergerJoinExit(m)
    \/ \E m \in Threads : MergerJoinTimeout(m)
    \/ \E t \in Threads : LoopCheck(t)
    \/ \E t \in Threads : ReadButtons(t)
    \/ \E t \in Threads : ReadAxes(t)
    \/ \E t \in Threads : LogSend(t)
    \/ \E t \in Threads : Sleep(t)
    \/ \E t \in Threads : LoopRaise(t)

FailoverSpec == AppInit /\ [][FailoverNext]_vars

\* every started thread keeps being scheduled and a join in progress
\* returns; the user's clicks and the exceptions are under no obligation
FailoverFairSpec ==
    /\ AppInit /\ [][FailoverNext]_vars
    /\ \A t \in Threads : WF_vars(LoopStep(t))
    /\ \A m \in Threads : WF_vars(MergerStep(m))
    /\ WF_vars(JoinExit \/ JoinTimeout)

----------------------------------------------------------------------------
(* The report encoder's axis scaling.  The output loop of                   *)
(* src/virtualcontroller.py only names it (hid_report =                     *)
(* create_hid_report(self.state), line 77, in a comment); the scaling is    *)
(* modelled as the specification gives it:                                  *)
(*     scaled = round((value + 1.0) * 127.5), clamped into [0, 255]         *)
(* with round() the built-in of the repository's language, which rounds a   *)
(* tie to the even integer.                                                 *)

\* the axis values encoded: -1.008 to 1.008 in steps of 0.008, which has the
\* two ends of the range, 0.0 and every value whose product is a tie
AxisGrid == {8 * k : k \in -126..126}

\* int((value + 1.0) * 127.5): the fraction is cut off
ScaleAxis_Truncating(v) ==
    LET q == ((v + 1000) * 1275) \div 10000
    IN  IF q < 0 THEN 0 ELSE IF q > 255 THEN 255 ELSE q

\* round((value + 1.0) * 127.5) clamped into [0, 255]
ScaleAxis(v) ==
    LET n == (v + 1000) * 1275
        q == n \div 10000
        r == n % 10000
        rounded == IF r < 5000 THEN q
                   ELSE IF r > 5000 THEN q + 1
                   ELSE IF q % 2 = 0 THEN q ELSE q + 1
    IN  IF rounded < 0 THEN 0 ELSE IF rounded > 255 THEN 255 ELSE rounded

\* encode: the two axis fields of one report
Encode ==
    /\ axis_bytes = <<>>
    /\ axis_bytes' = <<ScaleAxis(axis_values[1]), ScaleAxis(axis_values[2])>>
    /\ UNCHANGED axis_values
    /\ UNCHANGED <<mergerVars, driverVars, heldVars, threadVars, apiVars, appVars>>

EncodeInit ==
    /\ MergerInit
    /\ DriverInit
    /\ axis_values \in AxisGrid \X AxisGrid
    /\ axis_bytes = <<>>

EncodeNext == Encode

EncodeSpec == EncodeInit /\ [][EncodeNext]_vars

\* C17: every axis value in [-1.0, 1.0] is encoded as a byte in 0..255 that
\* is an integer nearest to (v + 1.0) * 127.5; -1.0 gives 0, 0.0 gives 128
\* and 1.0 gives 255; and of two axis values the larger never gets the
\* smaller byte.
C17_AxisScaling ==
    axis_bytes # <<>> =>
        /\ \A i \in 1..2 :
             LET v == axis_values[i]
                 b == axis_bytes[i]
             IN  /\ b \in 0..255
                 /\ (-1000 <= v /\ v <= 1000) =>
                      Abs(10000 * b - (v + 1000) * 1275) <= 5000
                 /\ v = -1000 => b = 0
                 /\ v = 0 => b = 128
                 /\ v = 1000 => b = 255
        /\ axis_values[1] <= axis_values[2] => axis_bytes[1] <= axis_bytes[2]

\* C17, its case: 0.0 and 1.0 have been encoded, as 128 and 255
C17_Witness ==
    /\ axis_values = <<0, 1000>>
    /\ axis_bytes = <<128, 255>>

----------------------------------------------------------------------------
(* The merge engine: combine_inputs on the snapshots of one pass.  mpc is   *)
(* "idle" before the first pass and after each combine_inputs, when         *)
(* combined_state and combined_axes are the merge of the four player dicts. *)

\* the values a snapshot has for a key, absent keys at their default
Button1(b) == Get(player1_inputs, b, FALSE)
Button2(b) == Get(player2_inputs, b, FALSE)
Axis1(a) == Get(player1_axes, a, 0)
Axis2(a) == Get(player2_axes, a, 0)
MergedButton(b) == Get(combined_state, b, FALSE)
MergedAxis(a) == Get(combined_axes, a, 0)

\* C1: after combine_inputs, for every button id the merged button is true
\* iff it is true in player 1's snapshot or in player 2's, a key absent from
\* a snapshot counting as false.
C1_ButtonsAreOr ==
    mpc = "idle" =>
        \A b \in InputKeys : MergedButton(b) = (Button1(b) \/ Button2(b))

\* C1, its case: a pass in which button_0 is pressed by player 1 only and a
\* hat direction, a key player 1's snapshot does not have, by player 2 only
C1_Witness ==
    /\ mpc = "idle"
    /\ Button1("button_0") /\ ~Button2("button_0")
    /\ "hat_0_up" \notin DOMAIN player1_inputs
    /\ Button2("hat_0_up")
    /\ MergedButton("button_0") /\ MergedButton("hat_0_up")

\* C2 as claimed: for every axis id, player 1's value if it is outside the
\* deadzone, otherwise player 2's value exactly as reported, small values
\* included.
C2_Player2PassedThroughRaw ==
    mpc = "idle" =>
        \A a \in AxisKeys :
            MergedAxis(a) = IF Abs(Axis1(a)) > Deadzone THEN Axis1(a) ELSE Axis2(a)

\* C2, amended: for every axis id, player 1's value if it is outside the
\* deadzone, whatever player 2 reports; otherwise player 2's value only if
\* that is outside the deadzone; a player-2 value inside the deadzone is
\* dropped and the merged axis is 0.0.
C2_Player2OnlyOutsideDeadzone ==
    mpc = "idle" =>
        \A a \in AxisKeys :
            /\ Abs(Axis1(a)) > Deadzone => MergedAxis(a) = Axis1(a)
            /\ (Abs(Axis1(a)) <= Deadzone /\ Abs(Axis2(a)) > Deadzone)
                 => MergedAxis(a) = Axis2(a)
            /\ (Abs(Axis1(a)) <= Deadzone /\ Abs(Axis2(a)) <= Deadzone)
                 => MergedAxis(a) = 0

\* C2, its case: player 1 has no axis input and player 2 reports 0.05; the
\* merged axis is 0.0
C2_Witness ==
    /\ mpc = "idle"
    /\ "axis_0" \notin DOMAIN player1_axes
    /\ Axis2("axis_0") = 50
    /\ MergedAxis("axis_0") = 0

\* C3: for every axis id the merged mapping has the key iff one of the two
\* values is strictly outside the deadzone, and then with player 1's value
\* if that one is, else player 2's; a value of exactly 0.1 or -0.1 is inside
\* the deadzone.
C3_AxisDeadzoneStrict ==
    mpc = "idle" =>
        \A a \in AxisKeys :
            LET in1 == -Deadzone <= Axis1(a) /\ Axis1(a) <= Deadzone
                in2 == -Deadzone <= Axis2(a) /\ Axis2(a) <= Deadzone
            IN  /\ a \in DOMAIN combined_axes <=> ~(in1 /\ in2)
                /\ a \in DOMAIN combined_axes =>
                     combined_axes[a] = IF in1 THEN Axis2(a) ELSE Axis1(a)

\* C3, its case: player 1 reports exactly -0.1 and player 2 0.504; player 2's
\* value is the merged one
C3_Witness ==
    /\ mpc = "idle"
    /\ "axis_0" \in DOMAIN player1_axes /\ player1_axes["axis_0"] = -Deadzone
    /\ Axis2("axis_0") = 504
    /\ MergedAxis("axis_0") = 504

\* C11 as claimed: with one player unassigned the merged snapshot equals the
\* other player's snapshot for every button and every axis, axis values of
\* magnitude at most 0.1 included; with both unassigned it is all-default.
C11_UnassignedPassesOtherRaw ==
    mpc = "idle" =>
        /\ player1_id = "None" =>
             /\ \A b \in InputKeys : MergedButton(b) = Button2(b)
             /\ \A a \in AxisKeys : MergedAxis(a) = Axis2(a)
        /\ player2_id = "None" =>
             /\ \A b \in InputKeys : MergedButton(b) = Button1(b)
             /\ \A a \in AxisKeys : MergedAxis(a) = Axis1(a)

\* C11, amended: with one player unassigned that player's dicts stay empty
\* and the merged snapshot has the other player's value for every button,
\* and for every axis whose value is outside the deadzone; an axis the other
\* player reports inside the deadzone merges to 0.0.  With both unassigned
\* the merged dicts are empty.
C11_UnassignedPassesOtherOutsideDeadzone ==
    mpc = "idle" =>
        /\ player1_id = "None" =>
             /\ player1_inputs = EmptyDict /\ player1_axes = EmptyDict
             /\ \A b \in InputKeys : MergedButton(b) = Button2(b)
             /\ \A a \in AxisKeys :
                  MergedAxis(a) = IF Abs(Axis2(a)) > Deadzone THEN Axis2(a) ELSE 0
        /\ player2_id = "None" =>
             /\ player2_inputs = EmptyDict /\ player2_axes = EmptyDict
             /\ \A b \in InputKeys : MergedButton(b) = Button1(b)
             /\ \A a \in AxisKeys :
                  MergedAxis(a) = IF Abs(Axis1(a)) > Deadzone THEN Axis1(a) ELSE 0
        /\ (player1_id = "None" /\ player2_id = "None") =>
             (combined_state = EmptyDict /\ combined_axes = EmptyDict)

\* C11, its case: player 1 is unassigned, player 2 presses button_0 and
\* holds axis_0 at 0.05; the merged button is pressed and the merged axis is
\* 0.0
C11_Witness ==
    /\ mpc = "idle"
    /\ player1_id = "None" /\ player2_id = "1"
    /\ Button2("button_0") /\ MergedButton("button_0")
    /\ "axis_0" \in DOMAIN player2_axes /\ player2_axes["axis_0"] = 50
    /\ MergedAxis("axis_0") = 0

\* what combine_inputs makes of the four player dicts alone
MergedButtonsOf(p1, p2) ==
    [k \in {b \in InputKeys : Get(p1, b, FALSE) \/ Get(p2, b, FALSE)} |-> TRUE]
MergedAxesOf(p1, p2) ==
    [k \in {a \in AxisKeys : Abs(Get(p1, a, 0)) > Deadzone
                               \/ Abs(Get(p2, a, 0)) > Deadzone} |->
        IF Abs(Get(p1, k, 0)) > Deadzone THEN p1[k] ELSE p2[k]]

\* C12: the merged dicts are determined by the player dicts of the pass
\* alone: whatever they held before, after combine_inputs they are the merge
\* of the current player dicts, key for key, so that equal player dicts give
\* equal merged dicts and no key or value of the previous merge is left; and
\* a running merger has handed exactly these dicts to update_state.
C12_MergeOfCurrentInputsOnly ==
    mpc = "idle" =>
        /\ combined_state = MergedButtonsOf(player1_inputs, player2_inputs)
        /\ combined_axes = MergedAxesOf(player1_axes, player2_axes)
        /\ (merger_is_running /\ last_update.called) =>
              state = [buttons |-> combined_state, axes |-> combined_axes]

\* C12, its case: the merge before this pass held a key, this pass found
\* button_0 released and axis_0 inside the deadzone for both players, and
\* the merged dicts are empty
C12_Witness ==
    /\ mpc = "idle"
    /\ overwritten
    /\ "button_0" \in DOMAIN player1_inputs /\ "button_0" \in DOMAIN player2_inputs
    /\ "axis_0" \in DOMAIN player1_axes /\ "axis_0" \in DOMAIN player2_axes
    /\ combined_state = EmptyDict
    /\ combined_axes = EmptyDict

\* C13: a player whose read raised pygame.error in this pass, wherever in
\* the read, has an all-default snapshot (both dicts empty) when the pass
\* ends and when combine_inputs has used it.
C13_FailedReadLeavesDefaults ==
    mpc \in {"combine", "idle"} =>
        /\ player1_failed => (player1_inputs = EmptyDict /\ player1_axes = EmptyDict)
        /\ player2_failed => (player2_inputs = EmptyDict /\ player2_axes = EmptyDict)

----------------------------------------------------------------------------
(* The output driver *)

\* what the output loop makes of the state before any update_state
NoSnapshot == [buttons |-> EmptyDict, axes |-> EmptyDict]

\* a tick that has read both halves of the state
TickRead(t) == pc[t] \in {"log", "sleep"}

\* C4: the buttons and the axes a tick uses are those of one update_state
\* call (or of the state before any call): no tick pairs the buttons of one
\* call with the axes of another.
C4_NoTornSnapshot ==
    \A t \in Threads :
        TickRead(t) =>
            \E s \in Snapshots \cup {NoSnapshot} :
                /\ active_buttons[t] = ActiveButtonsOf(s.buttons)
                /\ active_axes[t] = ActiveAxesOf(s.axes)

\* C5: a start() made while the controller is running returns success and
\* begins no second output cycle: no thread is created and output_thread is
\* the one it was.
C5_SecondStartIsNoOp ==
    [][(Start /\ is_running) =>
          (last_call'.ret = "True" /\ UNCHANGED <<pc, output_thread>>)]_vars

\* C6: at most one output cycle is live at any time.
C6_AtMostOneLiveCycle == Cardinality(Live) <= 1

\* C7: once the running flag is cleared a thread at its loop test leaves the
\* loop without another tick; and after a stop(), unless a start() follows,
\* every output thread eventually returns.
C7_StopEndsTheCycle ==
    /\ [][\A t \in Threads :
            (~is_running /\ pc[t] = "check" /\ pc'[t] # "check")
                => pc'[t] = "done"]_vars
    /\ (last_call.op = "stop") ~> (last_call.op = "start" \/ Live = {})

\* C7, its case: stop() is in its join, entered with the controller running,
\* and every output thread has returned
C7_Witness ==
    /\ api_pc = "joining"
    /\ last_call = [op |-> "stop", ret |-> "pending"]
    /\ ~is_running
    /\ pc[output_thread] = "done"
    /\ Live = {}

\* C8: a stop() made while the controller is not running returns None at
\* once and changes nothing: not is_running, is_initialized or output_thread,
\* not the held state, not a thread.
C8_StopWhenNotRunningIsNoOp ==
    [][(Stop /\ ~is_running) =>
          /\ UNCHANGED <<driverVars, heldVars, threadVars, api_pc>>
          /\ last_call' = [op |-> "stop", ret |-> "None"]]_vars

\* C8, its case: a stop() has returned on a controller that start() never
\* ran on
C8_Witness ==
    /\ last_call = [op |-> "stop", ret |-> "None"]
    /\ api_pc = "idle"
    /\ is_initialized
    /\ ~is_running
    /\ Created = {}
    /\ output_thread = 0

\* C9: a start() on a controller that is not initialized returns False,
\* leaves is_running False and creates no thread; an uninitialized controller
\* is never running and has no thread.
C9_StartFailsUninitialized ==
    /\ [][(Start /\ ~is_initialized) =>
            /\ last_call' = [op |-> "start", ret |-> "False"]
            /\ ~is_running'
            /\ UNCHANGED <<driverVars, threadVars, heldVars, api_pc>>]_vars
    /\ [](~is_initialized => (~is_running /\ Created = {} /\ output_thread = 0))

\* C9, its case: start() has returned False
C9_Witness ==
    /\ ~is_initialized
    /\ last_call = [op |-> "start", ret |-> "False"]
    /\ ~is_running
    /\ Created = {}

\* C10: once an update_state call has completed, each read a tick makes of
\* the held state yields the data of the most recently completed call, never
\* that of an earlier one.
C10_TickReadsLatestUpdate ==
    [][\A t \in Threads :
         /\ (last_update.called /\ pc[t] = "buttons" /\ pc'[t] = "axes")
              => active_buttons'[t] = ActiveButtonsOf(last_update.buttons)
         /\ (last_update.called /\ pc[t] = "axes" /\ TickRead(t)')
              => active_axes'[t] = ActiveAxesOf(last_update.axes)]_vars

\* C10, its case: a tick is about to log the pressed button and the axis of
\* the most recently completed call
C10_Witness ==
    \E t \in Threads :
        /\ pc[t] = "log"
        /\ last_update.called
        /\ active_buttons[t] = {"button_0"}
        /\ active_buttons[t] = ActiveButtonsOf(last_update.buttons)
        /\ active_axes[t] = ActiveAxesOf(last_update.axes)

\* C14: an exception in one tick, the first in a row, is logged and the loop
\* goes on: the thread has not returned and the running flag is as it was.
\* (The loop counts no failures, so every exception is the first in a row.)
C14_SingleFailureContinues ==
    [][\A t \in Threads :
         LoopRaise(t) => (pc'[t] \notin Ended /\ is_running' = is_running)]_vars

\* C15: an exception in the loop body ends that thread with is_running
\* False and touches neither the thread that calls start() and stop() nor
\* the held state; while the current output thread is one that ended so,
\* the controller is not running; from then until the next start(), a
\* stop() changes nothing, and a start() returns True, sets is_running and
\* creates exactly one thread, at its loop test, leaving the others alone.
C15_FailureLeavesRestartable ==
    /\ [][\A t \in Threads :
            LoopRaise(t) =>
                /\ ~is_running' /\ pc'[t] = "failed"
                /\ \A u \in Threads \ {t} : pc'[u] = pc[u]
                /\ UNCHANGED <<apiVars, heldVars>>]_vars
    /\ []((output_thread # 0 /\ pc[output_thread] = "failed") => ~is_running)
    /\ [][(Stop /\ ~is_running /\ \E t \in Threads : pc[t] = "failed") =>
            /\ UNCHANGED <<driverVars, heldVars, threadVars, api_pc>>
            /\ last_call' = [op |-> "stop", ret |-> "None"]]_vars
    /\ [][(Start /\ ~is_running /\ \E t \in Threads : pc[t] = "failed") =>
            /\ last_call' = [op |-> "start", ret |-> "True"]
            /\ is_running'
            /\ output_thread' \notin Created
            /\ pc'[output_thread'] = "check"
            /\ \A u \in Threads \ {output_thread'} : pc'[u] = pc[u]]_vars

\* C15, its case: the first output thread ended through the except clause
\* and the start() after it has created the second, the only live one
C15_Witness ==
    /\ pc[1] = "failed"
    /\ last_call = [op |-> "start", ret |-> "True"]
    /\ is_running
    /\ output_thread = 2
    /\ pc[2] = "check"
    /\ Live = {2}

\* C16: every tick of a running loop that has read the held state goes on
\* to emit it ("Sending to virtual controller ..."), whatever it holds.
C16_EveryTickEmits ==
    [][\A t \in Threads :
         (pc[t] = "axes" /\ pc'[t] \notin {"axes", "failed"})
             => pc'[t] = "log"]_vars

----------------------------------------------------------------------------
(* The application *)

\* C18: what the output loop reads as the held buttons and axes is what the
\* most recently completed update_state call was given, whatever the merger
\* has done to combined_state and combined_axes since; and a step in which
\* no update_state call completes with other arguments leaves both as they
\* were.
C18_HeldSnapshotIsolated ==
    /\ [](last_update.called =>
            (HeldButtons = last_update.buttons /\ HeldAxes = last_update.axes))
    /\ [][last_update' = last_update =>
            (HeldButtons' = HeldButtons /\ HeldAxes' = HeldAxes)]_vars

\* C18, its case: a merger thread has cleared combined_state and
\* combined_axes for its next tick and not yet called update_state; the
\* held snapshot still has the pressed button and the axis of the last
\* call, and an output thread has read the button from it
C18_Witness ==
    /\ \E m \in Threads : merger_pc[m] = "fill"
    /\ combined_state = EmptyDict /\ combined_axes = EmptyDict
    /\ last_update.called
    /\ last_update.buttons = [k \in {"button_0"} |-> TRUE]
    /\ HeldButtons = last_update.buttons
    /\ HeldAxes = last_update.axes
    /\ \E t \in Threads : pc[t] = "axes" /\ active_buttons[t] = {"button_0"}

\* each assigned player's dicts are what one poll of its controller
\* returned, whole
PlayersComplete ==
    /\ player1_id # "None" =>
         [inputs |-> player1_inputs, axes |-> player1_axes] \in PolledReads
    /\ player2_id # "None" =>
         [inputs |-> player2_inputs, axes |-> player2_axes] \in PolledReads

\* C19: whenever a running merger thread runs lines 278-302 of
\* combine_inputs and hands the result to update_state, the dicts of each
\* assigned player are the whole result of one poll: nothing has cleared
\* them or is rebuilding them.
C19_MergeOfCompleteSnapshots ==
    [][\A m \in Threads :
         (MergerFill(m) /\ merger_is_running) => PlayersComplete]_vars

\* C20: while the merger is running, at most one merger loop has been
\* started and has not returned.
C20_AtMostOneMergerLoop ==
    merger_is_running => Cardinality(LiveMergers) <= 1

\* C21: a start_merging call that cannot start has no effect.  With both
\* players unassigned, or with the virtual controller not initialized, the
\* merger's flag stays False, no merger thread is started, and start() is not
\* called: the driver's flag, its threads and its last call are untouched.
\* When start() was called and returned False, the merger's flag stays False
\* and no merger thread is started.
C21_NoEffectWhenCannotStart ==
    [][StartMerging =>
         /\ ((player1_id = "None" /\ player2_id = "None") \/ ~is_initialized)
              => UNCHANGED <<merger_is_running, merger_pc, last_call,
                             driverVars, threadVars>>
         /\ (last_call' # last_call /\ last_call'.ret = "False")
              => UNCHANGED <<merger_is_running, merger_pc>>]_vars

\* a start_merging call was refused for the virtual controller not being
\* initialized, with a player assigned, and left everything as constructed
C21_Witness ==
    /\ merging_call = "not initialized"
    /\ player1_id # "None" \/ player2_id # "None"
    /\ ~merger_is_running /\ ~is_running
    /\ MergersCreated = {} /\ Created = {}
    /\ last_call.op = "none"

\* C22: as long as no output cycle has failed, the merger's flag being True
\* implies the virtual controller's flag is True.
C22_MergerRunningImpliesDriverRunning ==
    ((\A t \in Threads : pc[t] # "failed") /\ merger_is_running) => is_running

\* C23: once an iteration of merger loop m has raised, with t the output
\* thread of the moment, eventually merger loop m has returned and output
\* cycle t has terminated.
C23_RaiseShutsBothDown ==
    \A m \in Threads : \A t \in Threads :
        (merger_pc[m] = "stopping" /\ output_thread = t)
            ~> (merger_pc[m] = "done" /\ pc[t] \in Ended)

====
